---- MODULE Spec2Model ----
(***************************************************************************)
(* A model of the claims synchronisation layer of trustfolio: the local    *)
(* store adapter (localStorage slot 'trustfolio_claims'), the remote list  *)
(* by issuer, the portfolio page's load / delete / import handlers, the    *)
(* edit and create pages' submit handlers, and the auth context they read. *)
(*                                                                         *)
(* JavaScript values are modelled as follows.                              *)
(*  - An object is a TLA+ record; a field that is absent or undefined is   *)
(*    not in the record's DOMAIN.  A JSON array element that is not an     *)
(*    object (a number, null, a string) is the record [json |-> kind].     *)
(*  - A value that may or may not be an array (what JSON.parse returns,    *)
(*    what React state `claims` holds) is [kind, items]: kind "array" with *)
(*    its items, or another kind with no items.                            *)
(*  - A string stored in localStorage is [kind, value]: "absent" (getItem  *)
(*    returns null), "empty" (the string ''), "garbage" (text JSON.parse   *)
(*    rejects) or "json" (the text of `value`).                            *)
(*  - A number that the code treats by truthiness (user ids, stars) is an  *)
(*    integer, 0 standing for 0 / undefined.                               *)
(*  - A score is the exact rational [num, den] of the double the code      *)
(*    computes (the operands of its one division are exact doubles, so the *)
(*    double is the one nearest to this rational).                         *)
(***************************************************************************)
EXTENDS Integers, Sequences, FiniteSets, TLC

VARIABLES
  token,      \* auth context: the bearer token, NullToken when there is none
  user,       \* auth context: the user, NoUser when there is none
  session,    \* auth context: a NextAuth session exists
  page,       \* the page that is mounted
  nav,        \* a router.push that has not completed yet ("none" when idle)
  editId,     \* EditPage: params.id, parsed
  hasWindow,  \* typeof window !== 'undefined'
  slot,       \* localStorage['trustfolio_claims']
  settings,   \* localStorage['trustfolio_settings']
  now,        \* the clock, in milliseconds
  remote,     \* the claims the backend holds for the issuer
  claims,     \* PortfolioPage state: the exposed claim set
  mode,       \* PortfolioPage state: 'backend' | 'local'
  loading,    \* PortfolioPage state: loading flag
  error,      \* PortfolioPage state: the notice shown
  loads,      \* loadClaims calls waiting for the remote response, oldest first
  pend,       \* write requests (DELETE, PUT, POST) waiting for their response
  last        \* history: what the step just taken did

vars == <<token, user, session, page, nav, editId, hasWindow, slot, settings, now,
          remote, claims, mode, loading, error, loads, pend, last>>

authVars == <<token, user, session>>
portfolioVars == <<claims, mode, loading, error, loads>>

----------------------------------------------------------------------------
(* Bounds of the model *)

MaxClock == 3      \* handler runs that take time: the clock is read at
                   \* ClockStart .. ClockStart + MaxClock
MaxStore == 4      \* records a store may hold
MaxBatch == 2      \* records in an imported file
MaxLoads == 2      \* loadClaims calls in flight
MaxPending == 1    \* write requests in flight

----------------------------------------------------------------------------
(* Values *)

NullToken == "null"
Sentinel == "nextauth_session"
BackendToken == "jwt"
NoUser == [present |-> FALSE, id |-> 0, issuerId |-> 0]
UserIds == {7}
\* What login / register / the saved auth_user can yield: issuerId is
\* data.user?.id || data.issuer_id, id falls back further to data.id.
LoginUsers ==
  { [present |-> TRUE, id |-> i, issuerId |-> i] : i \in UserIds } \cup
  { [present |-> TRUE, id |-> i, issuerId |-> 0] : i \in UserIds } \cup
  { [present |-> TRUE, id |-> 0, issuerId |-> 0] }
\* What a NextAuth session yields: id is issuerId || 0.
SessionUsers ==
  { [present |-> TRUE, id |-> i, issuerId |-> i] : i \in UserIds \cup {0} }

Arr(items) == [kind |-> "array", items |-> items]
NonArr(k) == [kind |-> k, items |-> <<>>]
IsArray(v) == v.kind = "array"

Absent == [kind |-> "absent", value |-> Arr(<<>>)]
EmptyText == [kind |-> "empty", value |-> Arr(<<>>)]
Garbage == [kind |-> "garbage", value |-> Arr(<<>>)]

IsObject(e) == "json" \notin DOMAIN e
Has(e, f) == f \in DOMAIN e

\* { ...r, ...upd }: the fields of upd override or extend those of r. Spreading
\* a value that is not an object (a number, null) contributes no field.
Spread(r, upd) ==
  LET base == IF IsObject(r) THEN DOMAIN r ELSE {}
  IN  [f \in base \cup DOMAIN upd |-> IF f \in DOMAIN upd THEN upd[f] ELSE r[f]]

Ids(items) == { items[i].id : i \in { j \in 1..Len(items) : Has(items[j], "id") } }

RECURSIVE SetMax(_)
SetMax(S) ==
  IF S = {} THEN 0
  ELSE LET x == CHOOSE y \in S : TRUE
           m == SetMax(S \ {x})
       IN  IF x > m THEN x ELSE m

\* items.filter(claim => claim.id !== id)
RECURSIVE FilterOut(_, _)
FilterOut(items, id) ==
  IF items = <<>> THEN <<>>
  ELSE LET rest == FilterOut(Tail(items), id)
       IN  IF Has(Head(items), "id") /\ Head(items).id = id
           THEN rest ELSE <<Head(items)>> \o rest

\* A string the code inspects by prefix is the sequence of its characters;
\* text whose characters the code never looks into (a host and path, a user id)
\* is carried as one element, which is no character of a scheme.
Http == <<"h", "t", "t", "p", ":", "/", "/">>
Https == <<"h", "t", "t", "p", "s", ":", "/", "/">>

\* s.startsWith(prefix)
startsWith(s, prefix) ==
  Len(s) >= Len(prefix) /\ SubSeq(s, 1, Len(prefix)) = prefix

----------------------------------------------------------------------------
(* Rating normaliser, lib/linkedclaims *)

Rat(n, d) == [num |-> n, den |-> d]
RatEq(a, b) == a.num * b.den = b.num * a.den
RatLess(a, b) == a.num * b.den < b.num * a.den    \* denominators are positive
RatSub(a, b) == Rat(a.num * b.den - b.num * a.den, a.den * b.den)

\* (stars - 3) / 3: the midpoint of the superseded library file.
starsToScoreMid3(stars) == Rat(stars - 3, 3)

\* A variant that divides by the width of the scale instead of half of it:
\* (stars - 2.5) / 5.
starsToScoreFullWidth(stars) == Rat(2 * stars - 5, 10)

\* (stars - 2.5) / 2.5, numerator and denominator doubled to stay in integers.
starsToScore(stars) == Rat(2 * stars - 5, 5)

\* A variant without the test for a scheme: every non-empty input is
\* prefixed.
normalizeUriAlwaysPrefix(uri) == IF uri = <<>> THEN uri ELSE Https \o uri

\* normalizeUri(uri)
normalizeUri(uri) ==
  IF uri = <<>> THEN uri
  ELSE IF startsWith(uri, Http) \/ startsWith(uri, Https) THEN uri
  ELSE Https \o uri

----------------------------------------------------------------------------
(* Local store adapter, lib/linkedclaims *)

JSONstringify(v) == [kind |-> "json", value |-> v]

\* JSON.parse(stored): throws on text that is not JSON, and otherwise returns
\* whatever value the text denotes, array or not.
JSONparse(stored) ==
  IF stored.kind = "json" THEN [threw |-> FALSE, value |-> stored.value]
  ELSE [threw |-> TRUE, value |-> Arr(<<>>)]

getLocalClaims(w, stored) ==
  IF ~w THEN Arr(<<>>)
  ELSE IF stored.kind \in {"absent", "empty"} THEN Arr(<<>>)
  ELSE IF JSONparse(stored).threw THEN Arr(<<>>)
  ELSE JSONparse(stored).value

toISOString(t) == <<"iso", t>>

\* createClaimLocal writing from a list read before the other writes: the new
\* claim alone, as if the store had been read while it was still empty.
createClaimLocalStale(w, stored, claimData, t) ==
  LET newClaim == Spread(claimData, [id |-> t, createdAt |-> toISOString(t)])
  IN  IF ~IsArray(getLocalClaims(w, stored))
      THEN [threw |-> TRUE, slot |-> stored, claim |-> newClaim]
      ELSE [threw |-> FALSE, slot |-> JSONstringify(Arr(<<newClaim>>)),
            claim |-> newClaim]

\* createClaimLocal(claimData) at clock reading t: the record it builds, the
\* slot it leaves, and whether existingClaims.push threw (not an array).
createClaimLocal(w, stored, claimData, t) ==
  LET existingClaims == getLocalClaims(w, stored)
      newClaim == Spread(claimData, [id |-> t, createdAt |-> toISOString(t)])
  IN  IF ~IsArray(existingClaims)
      THEN [threw |-> TRUE, slot |-> stored, claim |-> newClaim]
      ELSE [threw |-> FALSE,
            slot |-> JSONstringify(Arr(Append(existingClaims.items, newClaim))),
            claim |-> newClaim]

----------------------------------------------------------------------------
(* Auth context, lib/auth-context *)

isAuthenticated(usr, sess) == usr.present \/ sess

\* A variant that takes any token for a backend token: token alone, without
\* the comparison with the sentinel.
hasBackendTokenAnyToken(tok) == tok # NullToken

\* token && token !== 'nextauth_session'
hasBackendToken(tok) == tok # NullToken /\ tok # Sentinel

\* user?.issuerId || user?.id
userIdOf(usr) == IF usr.issuerId # 0 THEN usr.issuerId ELSE usr.id

----------------------------------------------------------------------------
(* History *)

\* What a step did: the handler (op), the token its closure held, the mode and
\* the slot it started from, the write request it sent (req, for claim id),
\* the list request its trailing loadClaims() sent (reload), whether the local
\* adapter's result made it throw, its input and what it produced.
Event(op, tok, req, id) ==
  [op |-> op, token |-> tok, mode |-> mode, req |-> req, id |-> id,
   before |-> slot, threw |-> FALSE, reload |-> "none",
   input |-> <<>>, out |-> <<>>]

----------------------------------------------------------------------------
(* PortfolioPage: loadClaims *)

LocalNotice == "Using local data (backend unavailable)"

loadEligible(tok, usr, auth) == auth /\ hasBackendToken(tok) /\ userIdOf(usr) # 0

LoadRequest(tok, usr) == [token |-> tok, userId |-> userIdOf(usr)]

\* loadClaims() up to its first await, or to its end when it does not await:
\* called with the token, user and isAuthenticated of the render that made the
\* closure, and reading the slot as it is when the call runs.
loadClaims(tok, usr, auth, stored) ==
  IF loadEligible(tok, usr, auth)
  THEN /\ loads' = Append(loads, LoadRequest(tok, usr))
       /\ loading' = TRUE
       /\ error' = ""
       /\ UNCHANGED <<claims, mode>>
  ELSE /\ claims' = getLocalClaims(hasWindow, stored)
       /\ mode' = "local"
       /\ error' = ""
       /\ loading' = FALSE
       /\ UNCHANGED loads

\* The request loadClaims sends, for the history.
loadReq(tok, usr, auth) == IF loadEligible(tok, usr, auth) THEN "GET" ELSE "none"

\* A fresh PortfolioPage: the initial state of its hooks, then the effect that
\* calls loadClaims. Calls of an earlier instance no longer reach any state.
mountPortfolio(tok, usr, auth, stored) ==
  IF loadEligible(tok, usr, auth)
  THEN /\ loads' = <<LoadRequest(tok, usr)>>
       /\ claims' = Arr(<<>>)
       /\ mode' = "backend"
       /\ loading' = TRUE
       /\ error' = ""
  ELSE /\ loads' = <<>>
       /\ claims' = getLocalClaims(hasWindow, stored)
       /\ mode' = "local"
       /\ error' = ""
       /\ loading' = FALSE

RemoveAt(s, i) == SubSeq(s, 1, i - 1) \o SubSeq(s, i + 1, Len(s))

\* The outcomes of the GET /api/claim of fetchClaimsByIssuer.
BodyShapes == {"wrapped", "array", "object", "null"}
Failures == {"http", "network"}

\* fetchClaimsByIssuer reads response.data.claims before returning: a body that
\* is null throws there, and the catch rethrows.
fetchThrows(outcome) == outcome \in Failures \/ outcome = "null"

\* response.claims || [] in loadClaims, for a body fetchClaimsByIssuer returned.
backendClaims(outcome, held) == IF outcome = "wrapped" THEN Arr(held) ELSE Arr(<<>>)

\* A variant whose catch block only reports the failure and leaves the list
\* and the mode as they were.
LoadSettleNoFallback(i, outcome) ==
  /\ page = "portfolio"
  /\ i \in 1..Len(loads)
  /\ loads' = RemoveAt(loads, i)
  /\ IF fetchThrows(outcome)
     THEN /\ error' = LocalNotice
          /\ UNCHANGED <<claims, mode>>
     ELSE /\ claims' = backendClaims(outcome, remote)
          /\ mode' = "backend"
          /\ UNCHANGED error
  /\ loading' = FALSE
  /\ last' = [Event(IF fetchThrows(outcome) THEN "loadFail" ELSE "loadOk",
                    loads[i].token, "none", 0)
                EXCEPT !.input = <<outcome>>]
  /\ UNCHANGED <<authVars, page, nav, editId, hasWindow, settings, slot, now,
               remote, pend>>

\* A variant that sends the request again when it failed, keeping the page
\* loading, instead of falling back at once.
LoadSettleRetrying(i, outcome) ==
  /\ page = "portfolio"
  /\ i \in 1..Len(loads)
  /\ IF fetchThrows(outcome)
     THEN /\ loads' = Append(RemoveAt(loads, i), loads[i])
          /\ UNCHANGED <<claims, mode, error, loading>>
     ELSE /\ loads' = RemoveAt(loads, i)
          /\ claims' = backendClaims(outcome, remote)
          /\ mode' = "backend"
          /\ loading' = FALSE
          /\ UNCHANGED error
  /\ last' = [Event(IF fetchThrows(outcome) THEN "loadFail" ELSE "loadOk",
                    loads[i].token, "none", 0)
                EXCEPT !.input = <<outcome>>]
  /\ UNCHANGED <<authVars, page, nav, editId, hasWindow, settings, slot, now,
               remote, pend>>

\* A variant without the finally block: loading is cleared on success only.
LoadSettleKeepsLoading(i, outcome) ==
  /\ page = "portfolio"
  /\ i \in 1..Len(loads)
  /\ loads' = RemoveAt(loads, i)
  /\ IF fetchThrows(outcome)
     THEN /\ claims' = getLocalClaims(hasWindow, slot)
          /\ mode' = "local"
          /\ error' = LocalNotice
          /\ UNCHANGED loading
     ELSE /\ claims' = backendClaims(outcome, remote)
          /\ mode' = "backend"
          /\ loading' = FALSE
          /\ UNCHANGED error
  /\ last' = [Event(IF fetchThrows(outcome) THEN "loadFail" ELSE "loadOk",
                    loads[i].token, "none", 0)
                EXCEPT !.input = <<outcome>>]
  /\ UNCHANGED <<authVars, page, nav, editId, hasWindow, settings, slot, now,
               remote, pend>>

\* loadClaims from the response of its request to the end.
LoadSettle(i, outcome) ==
  /\ page = "portfolio"
  /\ i \in 1..Len(loads)
  /\ loads' = RemoveAt(loads, i)
  /\ IF fetchThrows(outcome)
     THEN /\ claims' = getLocalClaims(hasWindow, slot)
          /\ mode' = "local"
          /\ error' = LocalNotice
     ELSE /\ claims' = backendClaims(outcome, remote)
          /\ mode' = "backend"
          /\ UNCHANGED error
  /\ loading' = FALSE
  /\ last' = [Event(IF fetchThrows(outcome) THEN "loadFail" ELSE "loadOk",
                    loads[i].token, "none", 0)
                EXCEPT !.input = <<outcome>>]
  /\ UNCHANGED <<authVars, page, nav, editId, hasWindow, settings, slot, now,
               remote, pend>>

----------------------------------------------------------------------------
(* Navigation *)

\* A write request in flight with what the handler's closure holds: the token,
\* user and isAuthenticated of its render, the body sent and the form.
PendingWrite(op, id, tok, usr, auth, data, form) ==
  [op |-> op, id |-> id, token |-> tok, user |-> usr, auth |-> auth,
   alive |-> TRUE, data |-> data, form |-> form]

RECURSIVE Orphaned(_)
Orphaned(p) ==
  IF p = <<>> THEN <<>>
  ELSE <<[Head(p) EXCEPT !.alive = FALSE]>> \o Orphaned(Tail(p))

\* PortfolioPage unmounts: its state is gone (mode is kept as the provenance
\* the user last saw), and what its pending calls set reaches nothing.
leavePortfolio ==
  /\ loads' = <<>>
  /\ claims' = Arr(<<>>)
  /\ error' = ""
  /\ loading' = FALSE
  /\ UNCHANGED mode
  /\ pend' = Orphaned(pend)

\* The portfolio page renders its buttons and its list: a browser shows it,
\* it is not loading, and the claims it holds can be listed.
Interactive == hasWindow /\ page = "portfolio" /\ ~loading /\ IsArray(claims)

\* The ids of the claims the list shows.
ShownIds == IF IsArray(claims) THEN Ids(claims.items) ELSE {}

\* <Link href="/create">, on the portfolio page and on the home page
GoCreate ==
  /\ Interactive \/ (hasWindow /\ page = "home")
  /\ page' = "create"
  /\ leavePortfolio
  /\ last' = Event("goCreate", token, "none", 0)
  /\ UNCHANGED <<authVars, nav, editId, hasWindow, settings, slot, now, remote>>

\* <Link href={`/edit/${claim.id}`}>, for a claim the page shows
GoEdit(id) ==
  /\ Interactive
  /\ id \in Ids(claims.items)
  /\ page' = "edit"
  /\ editId' = id
  /\ leavePortfolio
  /\ last' = Event("goEdit", token, "none", id)
  /\ UNCHANGED <<authVars, nav, hasWindow, settings, slot, now, remote>>

\* The user opens /login.
GoLogin ==
  /\ Interactive
  /\ nav = "none"
  /\ page' = "login"
  /\ leavePortfolio
  /\ last' = Event("goLogin", token, "none", 0)
  /\ UNCHANGED <<authVars, nav, editId, hasWindow, settings, slot, now, remote>>

\* The links of the home, edit, create, login and settings pages that lead
\* to the portfolio.
GoPortfolio ==
  /\ hasWindow
  /\ page \in {"home", "edit", "create", "login", "settings"}
  /\ pend = <<>>
  /\ page' = "portfolio"
  /\ mountPortfolio(token, user, isAuthenticated(user, session), slot)
  /\ last' = [Event("goPortfolio", token, "none", 0)
                EXCEPT !.reload = loadReq(token, user,
                                          isAuthenticated(user, session))]
  /\ UNCHANGED <<authVars, nav, editId, hasWindow, settings, slot, now, remote, pend>>

\* The router.push('/login') of logout completes.
NavDone ==
  /\ nav = "login"
  /\ page = "portfolio"
  /\ nav' = "none"
  /\ page' = "login"
  /\ leavePortfolio
  /\ last' = Event("navDone", token, "none", 0)
  /\ UNCHANGED <<authVars, editId, hasWindow, settings, slot, now, remote>>

\* Date.now() at the start: far above the ids 1, 2, ... that imports into
\* an empty store assign.
ClockStart == MaxClock * MaxBatch + 1

\* A handler that ends in a dialog (confirm, alert) takes at least a
\* millisecond of the clock.
elapse == now < ClockStart + MaxClock /\ now' = now + 1

----------------------------------------------------------------------------
(* Auth context: login, NextAuth session, logout *)

\* login() / register() succeed: token and user are set, router.push('/portfolio').
Login(u) ==
  /\ page = "login"
  /\ token' = BackendToken
  /\ user' = u
  /\ page' = "portfolio"
  /\ mountPortfolio(BackendToken, u, TRUE, slot)
  /\ last' = Event("login", BackendToken, "none", 0)
  /\ UNCHANGED <<session, nav, editId, hasWindow, settings, slot, now, remote, pend>>

\* The effect on [session, status]: a NextAuth session appears. On the
\* portfolio page the changed token re-runs the effect that calls loadClaims.
SessionFound(u) ==
  /\ ~session
  /\ session' = TRUE
  /\ user' = u
  /\ token' = Sentinel
  /\ IF page = "portfolio" /\ token # Sentinel
     THEN loadClaims(Sentinel, u, TRUE, slot)
     ELSE UNCHANGED portfolioVars
  /\ last' = [Event("session", Sentinel, "none", 0) EXCEPT
                !.reload = IF page = "portfolio" /\ token # Sentinel
                           THEN loadReq(Sentinel, u, TRUE) ELSE "none"]
  /\ UNCHANGED <<page, nav, editId, hasWindow, settings, slot, now, remote, pend>>

\* A logout that clears the profile settings with the rest.
LogoutClearingSettings ==
  /\ Interactive
  /\ nav = "none"
  /\ token' = NullToken
  /\ user' = NoUser
  /\ session' = FALSE
  /\ slot' = Absent
  /\ settings' = Absent
  /\ nav' = "login"
  /\ IF token # NullToken
     THEN loadClaims(NullToken, NoUser, FALSE, Absent)
     ELSE UNCHANGED portfolioVars
  /\ last' = Event("logout", token, "none", 0)
  /\ UNCHANGED <<page, editId, hasWindow, now, remote, pend>>

\* logout(), from the portfolio page's button.
Logout ==
  /\ Interactive
  /\ nav = "none"
  /\ token' = NullToken
  /\ user' = NoUser
  /\ session' = FALSE
  /\ slot' = Absent
  /\ nav' = "login"
  /\ IF token # NullToken
     THEN loadClaims(NullToken, NoUser, FALSE, Absent)
     ELSE UNCHANGED portfolioVars
  /\ last' = Event("logout", token, "none", 0)
  /\ UNCHANGED <<page, editId, hasWindow, settings, now, remote, pend>>

----------------------------------------------------------------------------
(* SettingsPage: saveProfile, deleteAccount *)

\* <Link href="/settings"> on the portfolio page. The settings page renders
\* nothing for a visitor who is not authenticated, and its effect sends them
\* to /login.
GoSettings ==
  /\ Interactive
  /\ nav = "none"
  /\ page' = IF isAuthenticated(user, session) THEN "settings" ELSE "login"
  /\ leavePortfolio
  /\ last' = Event("goSettings", token, "none", 0)
  /\ UNCHANGED <<authVars, nav, editId, hasWindow, settings, slot, now, remote>>

\* saveProfile(): the display name and the bio of the form, with the time,
\* are written to the settings slot.
SaveProfile(profile) ==
  /\ hasWindow
  /\ page = "settings"
  /\ isAuthenticated(user, session)
  /\ settings' = JSONstringify([displayName |-> profile.displayName,
                                bio |-> profile.bio,
                                updatedAt |-> toISOString(now)])
  /\ last' = [Event("saveProfile", token, "none", 0) EXCEPT !.input = <<profile>>]
  /\ elapse
  /\ UNCHANGED <<authVars, page, nav, editId, hasWindow, slot, remote,
                 portfolioVars, pend>>

\* deleteAccount(): after both confirmations it removes the claims slot and
\* the settings slot, calls logout() and goes to the home page; otherwise it
\* changes nothing.
DeleteAccount(confirmed) ==
  /\ hasWindow
  /\ page = "settings"
  /\ isAuthenticated(user, session)
  /\ IF confirmed
     THEN /\ slot' = Absent
          /\ settings' = Absent
          /\ token' = NullToken
          /\ user' = NoUser
          /\ session' = FALSE
          /\ page' = "home"
          /\ last' = Event("deleteAccount", token, "none", 0)
     ELSE /\ last' = Event("deleteAccountCancel", token, "none", 0)
          /\ UNCHANGED <<authVars, page, slot, settings>>
  /\ UNCHANGED <<nav, editId, hasWindow, now, remote, portfolioVars, pend>>

----------------------------------------------------------------------------
(* PortfolioPage: deleteClaim *)

\* mode === 'backend' && token && token !== 'nextauth_session'
deleteRemote(md, tok) == md = "backend" /\ tok # NullToken /\ tok # Sentinel

\* The user answers Cancel to confirm().
DeleteCancel(id) ==
  /\ Interactive
  /\ id \in Ids(claims.items)
  /\ last' = Event("deleteCancel", token, "none", id)
  /\ UNCHANGED <<authVars, page, nav, editId, hasWindow, settings, slot, now, remote,
                 portfolioVars, pend>>

\* deleteClaim(id), confirmed, up to its await (backend branch) or to its end
\* (localStorage branch, with the loadClaims() that follows it).
DeleteClaim(id) ==
  /\ Interactive
  /\ id \in Ids(claims.items)
  /\ IF deleteRemote(mode, token)
     THEN /\ Len(pend) < MaxPending
          /\ pend' = Append(pend, PendingWrite("DELETE", id, token, user,
                                   isAuthenticated(user, session), <<>>, <<>>))
          /\ last' = Event("deleteStart", token, "DELETE", id)
          /\ UNCHANGED <<slot, portfolioVars>>
     ELSE LET localClaims == getLocalClaims(hasWindow, slot)
              auth == isAuthenticated(user, session)
          IN  IF ~IsArray(localClaims)
              THEN \* localClaims.filter is not a function: caught, alert
                   /\ last' = [Event("deleteLocal", token, "none", id)
                                 EXCEPT !.threw = TRUE]
                   /\ UNCHANGED <<slot, portfolioVars, pend>>
              ELSE /\ loadEligible(token, user, auth) => Len(loads) < MaxLoads
                   /\ slot' = JSONstringify(Arr(FilterOut(localClaims.items, id)))
                   /\ loadClaims(token, user, auth, slot')
                   /\ last' = [Event("deleteLocal", token, "none", id)
                                 EXCEPT !.reload = loadReq(token, user, auth)]
                   /\ UNCHANGED pend
  /\ elapse
  /\ UNCHANGED <<authVars, page, nav, editId, hasWindow, settings, remote>>

\* The response of the DELETE: response.ok, or an error status / no response.
DeleteSettle(i, ok) ==
  /\ i \in 1..Len(pend)
  /\ pend[i].op = "DELETE"
  /\ ok => pend[i].id \in Ids(remote)
  /\ pend' = RemoveAt(pend, i)
  /\ remote' = IF ok THEN FilterOut(remote, pend[i].id) ELSE remote
  /\ IF ok /\ pend[i].alive
     THEN /\ loadEligible(pend[i].token, pend[i].user, pend[i].auth)
               => Len(loads) < MaxLoads
          /\ loadClaims(pend[i].token, pend[i].user, pend[i].auth, slot)
     ELSE UNCHANGED portfolioVars
  /\ last' = [Event(IF ok THEN "deleteOk" ELSE "deleteFail", pend[i].token,
                    "none", pend[i].id)
                EXCEPT !.reload = IF ok THEN loadReq(pend[i].token, pend[i].user,
                                                     pend[i].auth)
                                  ELSE "none"]
  /\ UNCHANGED <<authVars, page, nav, editId, hasWindow, settings, slot, now>>

----------------------------------------------------------------------------
(* PortfolioPage: exportAchievements *)

\* A variant that writes only the first record of the list into the file.
exportAchievementsFirstOnly(md, shown, w, stored) ==
  LET dataToExport == IF md = "backend" THEN shown ELSE getLocalClaims(w, stored)
  IN  JSONstringify(IF IsArray(dataToExport)
                    THEN Arr(IF dataToExport.items = <<>> THEN <<>>
                             ELSE <<dataToExport.items[1]>>)
                    ELSE dataToExport)

\* The text of the downloaded file:
\* JSON.stringify(mode === 'backend' ? claims : getLocalClaims(), null, 2)
exportAchievements(md, shown, w, stored) ==
  JSONstringify(IF md = "backend" THEN shown ELSE getLocalClaims(w, stored))

\* The Export button: the file is downloaded, alert.
Export ==
  /\ Interactive
  /\ last.op # "export"
  /\ last' = [Event("export", token, "none", 0)
                EXCEPT !.out = <<exportAchievements(mode, claims, hasWindow, slot)>>]
  /\ UNCHANGED <<authVars, page, nav, editId, hasWindow, settings, slot, now, remote,
                 portfolioVars, pend>>

----------------------------------------------------------------------------
(* PortfolioPage: importAchievements (reader.onload) *)

\* importedData.map((claim, index) => ({ ...claim, id: maxId + index + 1 })),
\* for the items from position `index` (0-based) on.
RECURSIVE reidentify(_, _, _)
reidentify(items, maxId, index) ==
  IF items = <<>> THEN <<>>
  ELSE <<Spread(Head(items), [id |-> maxId + index + 1])>>
       \o reidentify(Tail(items), maxId, index + 1)

\* A variant that numbers from the count of stored records instead of from
\* their largest id.
maxIdOfCount(items) == Len(items)

\* Math.max(0, ...existingClaims.map(c => c.id)); every stored item carries a
\* numeric id.
maxIdOf(items) == SetMax(Ids(items) \cup {0})

\* A variant that leaves the last element of the file out of the merged list.
mergeImportButLast(existing, imported) ==
  existing \o reidentify(SubSeq(imported, 1, Len(imported) - 1),
                         maxIdOf(existing), 0)

mergeImport(existing, imported) ==
  existing \o reidentify(imported, maxIdOf(existing), 0)

\* The file is not JSON (JSON.parse throws, caught) or not an array (alert,
\* return): nothing is written.
ImportRejected(file) ==
  /\ Interactive
  /\ JSONparse(file).threw \/ ~IsArray(JSONparse(file).value)
  /\ last' = Event("importRejected", token, "none", 0)
  /\ UNCHANGED <<authVars, page, nav, editId, hasWindow, settings, slot, now, remote,
                 portfolioVars, pend>>

\* The file is an array and the user answers Cancel to confirm().
ImportCancel(file) ==
  /\ Interactive
  /\ ~JSONparse(file).threw /\ IsArray(JSONparse(file).value)
  /\ last' = Event("importCancel", token, "none", 0)
  /\ UNCHANGED <<authVars, page, nav, editId, hasWindow, settings, slot, now, remote,
                 portfolioVars, pend>>

\* The file is an array and the user answers OK.
ImportConfirm(file) ==
  /\ Interactive
  /\ ~JSONparse(file).threw /\ IsArray(JSONparse(file).value)
  /\ elapse
  /\ LET importedData == JSONparse(file).value.items
         existingClaims == getLocalClaims(hasWindow, slot)
         auth == isAuthenticated(user, session)
     IN  IF ~IsArray(existingClaims)
         THEN \* existingClaims.map is not a function: caught, alert
              /\ last' = [Event("import", token, "none", 0)
                            EXCEPT !.threw = TRUE, !.input = importedData]
              /\ UNCHANGED <<slot, portfolioVars>>
         ELSE /\ Len(existingClaims.items) + Len(importedData) <= MaxStore
              /\ loadEligible(token, user, auth) => Len(loads) < MaxLoads
              /\ slot' = JSONstringify(Arr(mergeImport(existingClaims.items,
                                                       importedData)))
              /\ loadClaims(token, user, auth, slot')
              /\ last' = [Event("import", token, "none", 0)
                            EXCEPT !.input = importedData,
                                   !.reload = loadReq(token, user, auth)]
  /\ UNCHANGED <<authVars, page, nav, editId, hasWindow, settings, remote, pend>>

\* The file is an array, the user answers OK, and localStorage.setItem throws
\* (the quota is exceeded): caught, alert; nothing is written and loadClaims is
\* not called.
ImportQuotaExceeded(file) ==
  /\ Interactive
  /\ ~JSONparse(file).threw /\ IsArray(JSONparse(file).value)
  /\ IsArray(getLocalClaims(hasWindow, slot))
  /\ elapse
  /\ last' = [Event("import", token, "none", 0)
                EXCEPT !.threw = TRUE, !.input = JSONparse(file).value.items]
  /\ UNCHANGED <<authVars, page, nav, editId, hasWindow, settings, slot, remote,
                 portfolioVars, pend>>

\* The user uploads the file that was just downloaded, and answers OK.
ImportExported ==
  /\ last.op = "export"
  /\ ImportConfirm(last.out[1])

----------------------------------------------------------------------------
(* EditPage: handleSubmit *)

\* The fields both branches of the update write.
patchOf(formData) ==
  [statement |-> formData.statement,
   effectiveDate |-> formData.date,
   stars |-> formData.stars,
   score |-> starsToScore(formData.stars),
   aspect |-> formData.category]

\* A variant that puts a new record in the place of the matching one: the id
\* and the fields of the form, without the rest of the old record.
RECURSIVE updateLocalReplacing(_, _, _)
updateLocalReplacing(items, claimId, formData) ==
  IF items = <<>> THEN <<>>
  ELSE <<IF Has(Head(items), "id") /\ Head(items).id = claimId
         THEN Spread([id |-> claimId], patchOf(formData))
         ELSE Head(items)>>
       \o updateLocalReplacing(Tail(items), claimId, formData)

\* localClaims.map(claim => claim.id === claimId ? { ...claim, ...patch } : claim)
RECURSIVE updateLocal(_, _, _)
updateLocal(items, claimId, formData) ==
  IF items = <<>> THEN <<>>
  ELSE <<IF Has(Head(items), "id") /\ Head(items).id = claimId
         THEN Spread(Head(items), patchOf(formData))
         ELSE Head(items)>>
       \o updateLocal(Tail(items), claimId, formData)

\* hasBackendToken && user?.issuerId
updateRemote(tok, usr) == hasBackendToken(tok) /\ usr.issuerId # 0

\* handleSubmit up to its await (backend branch) or to its end (localStorage
\* branch, which ends with router.push('/portfolio')).
UpdateSubmit(formData) ==
  /\ page = "edit"
  /\ pend = <<>>
  /\ IF updateRemote(token, user)
     THEN /\ pend' = <<PendingWrite("PUT", editId, token, user,
                                    isAuthenticated(user, session),
                                    <<patchOf(formData)>>, <<formData>>)>>
          /\ last' = [Event("updateStart", token, "PUT", editId)
                        EXCEPT !.input = <<formData>>,
                               !.out = <<patchOf(formData)>>]
          /\ UNCHANGED <<page, slot, portfolioVars>>
     ELSE LET localClaims == getLocalClaims(hasWindow, slot)
          IN  IF ~IsArray(localClaims)
              THEN \* localClaims.map is not a function: caught, setError
                   /\ last' = [Event("updateLocal", token, "none", editId)
                                 EXCEPT !.threw = TRUE, !.input = <<formData>>]
                   /\ UNCHANGED <<page, slot, portfolioVars, pend>>
              ELSE /\ slot' = JSONstringify(Arr(updateLocal(localClaims.items,
                                                            editId, formData)))
                   /\ page' = "portfolio"
                   /\ mountPortfolio(token, user,
                                     isAuthenticated(user, session), slot')
                   /\ last' = [Event("updateLocal", token, "none", editId)
                                 EXCEPT !.input = <<formData>>,
                                        !.out = <<patchOf(formData)>>]
                   /\ UNCHANGED pend
  /\ elapse
  /\ UNCHANGED <<authVars, nav, editId, hasWindow, settings, remote>>

RECURSIVE updateHeld(_, _, _)
updateHeld(items, claimId, patch) ==
  IF items = <<>> THEN <<>>
  ELSE <<IF Head(items).id = claimId THEN Spread(Head(items), patch)
         ELSE Head(items)>>
       \o updateHeld(Tail(items), claimId, patch)

\* The response of the PUT.
UpdateSettle(ok) ==
  /\ page = "edit"
  /\ Len(pend) = 1
  /\ pend[1].op = "PUT"
  /\ ok => pend[1].id \in Ids(remote)
  /\ pend' = <<>>
  /\ IF ok
     THEN /\ remote' = updateHeld(remote, pend[1].id, pend[1].data[1])
          /\ page' = "portfolio"
          /\ mountPortfolio(token, user, isAuthenticated(user, session), slot)
     ELSE UNCHANGED <<remote, page, portfolioVars>>
  /\ last' = Event(IF ok THEN "updateOk" ELSE "updateFail", pend[1].token,
                   "none", pend[1].id)
  /\ UNCHANGED <<authVars, nav, editId, hasWindow, settings, slot, now>>

----------------------------------------------------------------------------
(* CreatePage: handleSubmit *)

subjectOf(userId) ==
  IF userId # 0
  THEN Http \o <<"trustclaims.whatscookin.us/user/", ToString(userId)>>
  ELSE Https \o <<"trustfolio.app/student/dana">>

claimDataOf(usr, formData) ==
  [subject |-> subjectOf(userIdOf(usr)),
   claim |-> IF formData.category = "skill" THEN "HAS_SKILL"
             ELSE "COMPLETED_PROJECT",
   statement |-> formData.statement,
   effectiveDate |-> formData.date,
   howKnown |-> "FIRST_HAND",
   stars |-> formData.stars,
   score |-> starsToScore(formData.stars),
   aspect |-> formData.category]

\* The body createClaim(claimData, token) posts.
createPayload(claimData) ==
  Spread(claimData,
         [subject |-> normalizeUri(claimData.subject),
          score |-> IF claimData.stars # 0 THEN starsToScore(claimData.stars)
                    ELSE claimData.score])

\* hasBackendToken && userId
createRemote(tok, usr) == hasBackendToken(tok) /\ userIdOf(usr) # 0

\* handleSubmit up to its await of createClaim (backend branch) or to its end
\* (createClaimLocal, then router.push('/portfolio')). When createClaimLocal
\* throws, the catch offers to save locally, which throws again and is caught.
CreateSubmit(formData) ==
  /\ page = "create"
  /\ pend = <<>>
  /\ IF createRemote(token, user)
     THEN /\ pend' = <<PendingWrite("POST", 0, token, user,
                                    isAuthenticated(user, session),
                                    <<createPayload(claimDataOf(user, formData))>>,
                                    <<formData>>)>>
          /\ last' = [Event("createStart", token, "POST", 0)
                        EXCEPT !.input = <<claimDataOf(user, formData)>>,
                               !.out = <<createPayload(claimDataOf(user, formData))>>]
          /\ UNCHANGED <<page, slot, portfolioVars>>
     ELSE LET made == createClaimLocal(hasWindow, slot,
                                       claimDataOf(user, formData), now)
          IN  IF made.threw
              THEN /\ last' = [Event("createLocal", token, "none", now)
                                 EXCEPT !.threw = TRUE,
                                        !.input = <<claimDataOf(user, formData)>>]
                   /\ UNCHANGED <<page, slot, portfolioVars, pend>>
              ELSE /\ Len(made.slot.value.items) <= MaxStore
                   /\ slot' = made.slot
                   /\ page' = "portfolio"
                   /\ mountPortfolio(token, user,
                                     isAuthenticated(user, session), slot')
                   /\ last' = [Event("createLocal", token, "none", now)
                                 EXCEPT !.input = <<claimDataOf(user, formData)>>,
                                        !.out = <<made.claim>>]
                   /\ UNCHANGED pend
  /\ elapse
  /\ UNCHANGED <<authVars, nav, editId, hasWindow, settings, remote>>

\* The backend stores the posted claim under an id of its own.
storeHeld(held, payload) ==
  Append(held, Spread(payload, [id |-> maxIdOf(held) + 1]))

\* The POST succeeds: alert, router.push('/portfolio').
CreateOk ==
  /\ page = "create"
  /\ Len(pend) = 1
  /\ pend[1].op = "POST"
  /\ Len(remote) < MaxStore
  /\ pend' = <<>>
  /\ remote' = storeHeld(remote, pend[1].data[1])
  /\ page' = "portfolio"
  /\ mountPortfolio(token, user, isAuthenticated(user, session), slot)
  /\ last' = Event("createOk", pend[1].token, "none", 0)
  /\ UNCHANGED <<authVars, nav, editId, hasWindow, settings, slot, now>>

\* A variant that saves the claim locally whatever the user answers.
CreateFailSilentLocal(saveLocal) ==
  /\ page = "create"
  /\ Len(pend) = 1
  /\ pend[1].op = "POST"
  /\ pend' = <<>>
  /\ IF TRUE
     THEN LET formData == pend[1].form[1]
              made == createClaimLocal(hasWindow, slot,
                                       claimDataOf(pend[1].user, formData), now)
          IN  IF made.threw
              THEN /\ last' = [Event(IF saveLocal THEN "createFallback" ELSE "createFail", pend[1].token, "none", now)
                                 EXCEPT !.threw = TRUE]
                   /\ UNCHANGED <<page, slot, portfolioVars>>
              ELSE /\ Len(made.slot.value.items) <= MaxStore
                   /\ slot' = made.slot
                   /\ page' = "portfolio"
                   /\ mountPortfolio(token, user,
                                     isAuthenticated(user, session), slot')
                   /\ last' = [Event(IF saveLocal THEN "createFallback" ELSE "createFail", pend[1].token, "none", now)
                                 EXCEPT !.input = <<claimDataOf(pend[1].user,
                                                                formData)>>,
                                        !.out = <<made.claim>>]
     ELSE /\ last' = Event("createFail", pend[1].token, "none", 0)
          /\ UNCHANGED <<page, slot, portfolioVars>>
  /\ elapse
  /\ UNCHANGED <<authVars, nav, editId, hasWindow, settings, remote>>

\* The POST fails: setError, then confirm('Backend error. Save locally instead?').
\* On OK the claim data is rebuilt from the closure's user and form and saved
\* with createClaimLocal.
CreateFail(saveLocal) ==
  /\ page = "create"
  /\ Len(pend) = 1
  /\ pend[1].op = "POST"
  /\ pend' = <<>>
  /\ IF saveLocal
     THEN LET formData == pend[1].form[1]
              made == createClaimLocal(hasWindow, slot,
                                       claimDataOf(pend[1].user, formData), now)
          IN  IF made.threw
              THEN /\ last' = [Event("createFallback", pend[1].token, "none", now)
                                 EXCEPT !.threw = TRUE]
                   /\ UNCHANGED <<page, slot, portfolioVars>>
              ELSE /\ Len(made.slot.value.items) <= MaxStore
                   /\ slot' = made.slot
                   /\ page' = "portfolio"
                   /\ mountPortfolio(token, user,
                                     isAuthenticated(user, session), slot')
                   /\ last' = [Event("createFallback", pend[1].token, "none", now)
                                 EXCEPT !.input = <<claimDataOf(pend[1].user,
                                                                formData)>>,
                                        !.out = <<made.claim>>]
     ELSE /\ last' = Event("createFail", pend[1].token, "none", 0)
          /\ UNCHANGED <<page, slot, portfolioVars>>
  /\ elapse
  /\ UNCHANGED <<authVars, nav, editId, hasWindow, settings, remote>>

----------------------------------------------------------------------------
(* CreatePage of app/create/page.tsx, with the library file it was written
   for: createClaim(claimData) stores locally, starsToScore has midpoint 3 *)

legacyClaimDataOf(formData) ==
  [subject |-> Https \o <<"trustfolio.app/student/dana/", formData.category>>,
   claim |-> IF formData.category = "skill" THEN "HAS_SKILL"
             ELSE "COMPLETED_PROJECT",
   statement |-> formData.statement,
   effectiveDate |-> formData.date,
   howKnown |-> "FIRST_HAND",
   stars |-> formData.stars,
   score |-> starsToScoreMid3(formData.stars),
   aspect |-> formData.category]

\* createClaim(claimData) of that library file: the same steps as
\* createClaimLocal.
createClaimLegacy(w, stored, claimData, t) ==
  LET existingClaims == getLocalClaims(w, stored)
      newClaim == Spread(claimData, [id |-> t, createdAt |-> toISOString(t)])
  IN  IF ~IsArray(existingClaims)
      THEN [threw |-> TRUE, slot |-> stored, claim |-> newClaim]
      ELSE [threw |-> FALSE,
            slot |-> JSONstringify(Arr(Append(existingClaims.items, newClaim))),
            claim |-> newClaim]

\* handleSubmit: createClaim, alert, router.push('/portfolio'); an exception is
\* caught and reported with an alert.
LegacyCreateSubmit(formData) ==
  /\ page = "create"
  /\ pend = <<>>
  /\ LET made == createClaimLegacy(hasWindow, slot,
                                   legacyClaimDataOf(formData), now)
     IN  IF made.threw
         THEN /\ last' = [Event("legacyCreate", token, "none", now)
                            EXCEPT !.threw = TRUE,
                                   !.input = <<legacyClaimDataOf(formData)>>]
              /\ UNCHANGED <<page, slot, portfolioVars>>
         ELSE /\ Len(made.slot.value.items) <= MaxStore
              /\ slot' = made.slot
              /\ page' = "portfolio"
              /\ mountPortfolio(token, user, isAuthenticated(user, session),
                                slot')
              /\ last' = [Event("legacyCreate", token, "none", now)
                            EXCEPT !.input = <<legacyClaimDataOf(formData)>>,
                                   !.out = <<made.claim>>,
                                   !.reload = loadReq(token, user,
                                                isAuthenticated(user, session))]
  /\ elapse
  /\ UNCHANGED <<authVars, nav, editId, hasWindow, settings, remote, pend>>

----------------------------------------------------------------------------
(* PortfolioPage: calculateAnalytics *)

\* claim.stars || 0
starsOrZero(claim) ==
  IF IsObject(claim) /\ Has(claim, "stars") /\ claim.stars # 0
  THEN claim.stars ELSE 0

\* items.reduce((sum, claim) => sum + (claim.stars || 0), 0)
RECURSIVE sumStars(_)
sumStars(items) ==
  IF items = <<>> THEN 0
  ELSE sumStars(SubSeq(items, 1, Len(items) - 1)) + starsOrZero(items[Len(items)])

\* A variant of toFixed(1) that cuts the digits after the first decimal off.
toFixed1Truncating(x) ==
  LET n == (10 * x.num) \div x.den
  IN  <<ToString(n \div 10), ".", ToString(n % 10)>>

\* x.toFixed(1) for x >= 0: the integer n with n / 10 nearest to x, the larger
\* of two equally near ones, written with one decimal. The quotient the code
\* passes is the double nearest to sum / count; for the counts explored here a
\* quotient half-way between two tenths is a multiple of 1/4, which a double
\* holds exactly, and every other quotient is further from the half-way points
\* than a double's error.
toFixed1(x) ==
  LET n == (20 * x.num + x.den) \div (2 * x.den)
  IN  <<ToString(n \div 10), ".", ToString(n % 10)>>

\* claim.aspect || 'project'
categoryOf(claim) ==
  IF IsObject(claim) /\ Has(claim, "aspect") /\ claim.aspect # ""
  THEN claim.aspect ELSE "project"

\* categoryBreakdown[category] = (categoryBreakdown[category] || 0) + 1: the
\* object as the sequence of its entries, a new key going to the end.
countCategory(entries, category) ==
  IF \E k \in 1..Len(entries) : entries[k][1] = category
  THEN [k \in 1..Len(entries) |->
          IF entries[k][1] = category
          THEN <<category, entries[k][2] + 1>> ELSE entries[k]]
  ELSE Append(entries, <<category, 1>>)

\* claims.forEach(...) over the claims in order
RECURSIVE countCategories(_)
countCategories(items) ==
  IF items = <<>> THEN <<>>
  ELSE countCategory(countCategories(SubSeq(items, 1, Len(items) - 1)),
                     categoryOf(items[Len(items)]))

\* One entry put into a list sorted by descending count, behind the entries
\* of the same count.
RECURSIVE insertByCount(_, _)
insertByCount(sorted, entry) ==
  IF sorted = <<>> THEN <<entry>>
  ELSE IF Head(sorted)[2] >= entry[2]
       THEN <<Head(sorted)>> \o insertByCount(Tail(sorted), entry)
       ELSE <<entry>> \o sorted

\* entries.sort(([, a], [, b]) => b - a): Array.prototype.sort is stable.
RECURSIVE sortByCount(_)
sortByCount(entries) ==
  IF entries = <<>> THEN <<>>
  ELSE insertByCount(sortByCount(SubSeq(entries, 1, Len(entries) - 1)),
                     entries[Len(entries)])

\* s.slice(0, n)
slice0(s, n) == SubSeq(s, 1, IF Len(s) < n THEN Len(s) ELSE n)

TopCategories == 5

calculateAnalytics(items) ==
  [totalAchievements |-> Len(items),
   averageRating |-> IF Len(items) > 0
                     THEN toFixed1(Rat(sumStars(items), Len(items)))
                     ELSE <<"0", ".", "0">>,
   categoryBreakdown |-> slice0(sortByCount(countCategories(items)),
                                TopCategories)]

\* The page renders with the claims it holds: analytics.averageRating is shown.
RenderAnalytics ==
  /\ Interactive
  /\ last.op = "init"
  /\ last' = [Event("analytics", token, "none", 0)
                EXCEPT !.out = <<calculateAnalytics(claims.items)>>]
  /\ UNCHANGED <<authVars, page, nav, editId, hasWindow, settings, slot, now, remote,
                 portfolioVars, pend>>

----------------------------------------------------------------------------
(* Inputs *)

Categories == {"project", "skill"}
Statements == {"built"}
Dates == {"2025-12-01"}
Stars == 1..5

\* What the create and edit forms can hold at submit.
Forms == [category : Categories, statement : Statements, stars : Stars,
          date : Dates]

\* One form, for the specification that explores the remote interplay.
SyncForms == { [category |-> "skill", statement |-> "learned", stars |-> 4,
                date |-> "2025-12-01"] }

\* Elements an uploaded JSON array may hold: a claim as exportAchievements
\* writes it, a claim-like record with no id, rating or category, and a value
\* that is not a record.
ExportedClaim ==
  [id |-> 1, subject |-> subjectOf(0), claim |-> "COMPLETED_PROJECT",
   statement |-> "built", effectiveDate |-> "2025-12-01",
   howKnown |-> "FIRST_HAND", stars |-> 5, score |-> starsToScore(5),
   aspect |-> "project", createdAt |-> toISOString(1)]
BareClaim ==
  [subject |-> subjectOf(0), claim |-> "HAS_SKILL", statement |-> "learned"]
ClaimItems == {ExportedClaim}
OtherItems == { [json |-> "number"] }

RECURSIVE SeqsUpTo(_, _)
SeqsUpTo(S, n) ==
  IF n = 0 THEN { <<>> }
  ELSE LET shorter == SeqsUpTo(S, n - 1)
       IN  shorter \cup { Append(q, x) : q \in shorter, x \in S }

\* The text of an uploaded file.
Files ==
  { Garbage, JSONstringify(NonArr("object")) } \cup
  { JSONstringify(Arr(b)) : b \in SeqsUpTo(ClaimItems \cup OtherItems, MaxBatch) }
SyncFiles == { JSONstringify(Arr(<<BareClaim>>)) }

\* What the slot may hold when the app starts: nothing, the empty string, text
\* that is not JSON, JSON that is not an array, and arrays of records.
SlotContents ==
  { Absent, EmptyText, Garbage } \cup
  { JSONstringify(NonArr(k)) : k \in {"object", "number", "null"} } \cup
  { JSONstringify(Arr(b)) : b \in SeqsUpTo(ClaimItems, 1) }

\* Strings given to normalizeUri: a beginning that is, or nearly is, a scheme,
\* followed by a rest.
UriHeads ==
  { <<>>, Http, Https,
    <<"h", "t", "t", "p", ":", "/">>, <<"h", "t", "t", "p", "s", ":", "/">>,
    <<"h", "t", "t", "p">>, <<"t", "t", "p", ":", "/", "/">>,
    <<"H", "t", "t", "p", ":", "/", "/">>, <<"f", "t", "p", ":", "/", "/">>,
    <<" ">> \o Http, <<"/", "/">> }
UriTails ==
  { <<>>, <<"x">>, <<"example.com">>, <<"/", "p">>, <<"s">>, Http \o <<"x">> }
Uris == { h \o t : h \in UriHeads, t \in UriTails }

\* Claim data handed to the two create adapters: CreateClaimInput types subject
\* as a string, so a host name, a path and the empty string are inputs too.
AdapterSubjects ==
  { <<>>, <<"example.com">>, <<"/", "student", "/", "dana">>, subjectOf(7) }
AdapterClaims ==
  { [subject |-> s, claim |-> "HAS_SKILL", statement |-> "learned",
     effectiveDate |-> "2025-12-01", howKnown |-> "FIRST_HAND", stars |-> 4,
     score |-> starsToScore(4), aspect |-> "skill"] : s \in AdapterSubjects }

\* A claim of a file exported from a store that the older create page wrote:
\* its score is the one the older starsToScore gave its stars.
OlderExportedClaim == [ExportedClaim EXCEPT !.score = starsToScoreMid3(5)]
ScoreFiles ==
  { JSONstringify(Arr(<<x>>)) : x \in {ExportedClaim, OlderExportedClaim} }

\* Claims the portfolio page may hold when it renders: with no stars field,
\* with stars 0, and with each rating.
AnalyticsClaims ==
  {BareClaim} \cup { Spread(BareClaim, [stars |-> s]) : s \in 0..5 }

\* Claims of six of the categories the forms offer, and one with no aspect.
BreakdownAspects ==
  {"project", "skill", "certification", "course", "award", "publication"}
BreakdownClaims ==
  {BareClaim} \cup { Spread(BareClaim, [aspect |-> a]) : a \in BreakdownAspects }
MaxShown == 6

\* What the settings form holds when it is saved.
Profiles == [displayName : {"", "Dana"}, bio : {"", "student"}]

\* What the backend holds at the start.
RemoteInit == << [id |-> 1, statement |-> "shipped", stars |-> 3,
                  aspect |-> "project"] >>

----------------------------------------------------------------------------
(* Specifications *)

\* An unauthenticated visitor on a freshly mounted portfolio page, the local
\* load done, nothing stored.
Init ==
  /\ token = NullToken
  /\ user = NoUser
  /\ session = FALSE
  /\ page = "portfolio"
  /\ nav = "none"
  /\ editId = 0
  /\ hasWindow = TRUE
  /\ settings = Absent
  /\ slot = Absent
  /\ now = ClockStart
  /\ remote = RemoteInit
  /\ claims = Arr(<<>>)
  /\ mode = "local"
  /\ loading = FALSE
  /\ error = ""
  /\ loads = <<>>
  /\ pend = <<>>
  /\ last = [op |-> "init", token |-> NullToken, mode |-> "local",
             req |-> "none", id |-> 0, before |-> Absent, threw |-> FALSE,
             reload |-> "none", input |-> <<>>, out |-> <<>>]

\* The local store under every form and every file, for a visitor who never
\* signs in.
NextLocal ==
  \/ GoCreate
  \/ \E id \in ShownIds : GoEdit(id)
  \/ GoPortfolio
  \/ \E id \in ShownIds : DeleteCancel(id) \/ DeleteClaim(id)
  \/ \E file \in Files : ImportRejected(file) \/ ImportCancel(file)
                         \/ ImportConfirm(file)
  \/ \E formData \in Forms : UpdateSubmit(formData) \/ CreateSubmit(formData)

SpecLocal == Init /\ [][NextLocal]_vars

\* The create and edit forms under every rating and category, for a visitor
\* who never signs in.
NextRate ==
  \/ GoCreate
  \/ \E id \in ShownIds : GoEdit(id)
  \/ GoPortfolio
  \/ \E formData \in Forms : UpdateSubmit(formData) \/ CreateSubmit(formData)

SpecRate == Init /\ [][NextRate]_vars

\* Import under every file, over stores that create and delete have shaped,
\* for a visitor who never signs in.
NextImport ==
  \/ GoCreate
  \/ GoPortfolio
  \/ \E id \in ShownIds : DeleteClaim(id)
  \/ \E file \in Files : ImportRejected(file) \/ ImportConfirm(file)
  \/ \E formData \in SyncForms : CreateSubmit(formData)

SpecImport == Init /\ [][NextImport]_vars

\* Both revisions of the create page and the edit page, for a visitor who
\* never signs in.
NextLegacy ==
  \/ GoCreate
  \/ \E id \in ShownIds : GoEdit(id)
  \/ GoPortfolio
  \/ \E formData \in Forms : LegacyCreateSubmit(formData)
  \/ \E formData \in SyncForms : CreateSubmit(formData) \/ UpdateSubmit(formData)

SpecLegacy == Init /\ [][NextLegacy]_vars

\* normalizeUri applied to a string, and again to what it returned.
InitUri ==
  /\ token = NullToken
  /\ user = NoUser
  /\ session = FALSE
  /\ page = "home"
  /\ nav = "none"
  /\ editId = 0
  /\ hasWindow = TRUE
  /\ settings = Absent
  /\ slot = Absent
  /\ now = ClockStart
  /\ remote = RemoteInit
  /\ claims = Arr(<<>>)
  /\ mode = "local"
  /\ loading = FALSE
  /\ error = ""
  /\ loads = <<>>
  /\ pend = <<>>
  /\ \E uri \in Uris :
       last = [op |-> "init", token |-> NullToken, mode |-> "local",
               req |-> "none", id |-> 0, before |-> Absent, threw |-> FALSE,
               reload |-> "none", input |-> <<uri>>, out |-> <<>>]

ApplyNormalizeUri ==
  /\ last.op = "init"
  /\ last' = [last EXCEPT !.op = "normalizeUri",
                          !.out = <<normalizeUri(last.input[1])>>]
  /\ UNCHANGED <<authVars, page, nav, editId, hasWindow, settings, slot, now, remote,
                 portfolioVars, pend>>

ReapplyNormalizeUri ==
  /\ last.op = "normalizeUri"
  /\ last' = [last EXCEPT !.input = last.out,
                          !.out = <<normalizeUri(last.out[1])>>]
  /\ UNCHANGED <<authVars, page, nav, editId, hasWindow, settings, slot, now, remote,
                 portfolioVars, pend>>

NextUri == ApplyNormalizeUri \/ ReapplyNormalizeUri

SpecUri == InitUri /\ [][NextUri]_vars

\* The two create adapters of lib/linkedtrust called one after the other with
\* claim data of their parameter type.
InitAdapter ==
  /\ token = NullToken
  /\ user = NoUser
  /\ session = FALSE
  /\ page = "create"
  /\ nav = "none"
  /\ editId = 0
  /\ hasWindow = TRUE
  /\ settings = Absent
  /\ slot = Absent
  /\ now = ClockStart
  /\ remote = RemoteInit
  /\ claims = Arr(<<>>)
  /\ mode = "local"
  /\ loading = FALSE
  /\ error = ""
  /\ loads = <<>>
  /\ pend = <<>>
  /\ last = [op |-> "init", token |-> NullToken, mode |-> "local",
             req |-> "none", id |-> 0, before |-> Absent, threw |-> FALSE,
             reload |-> "none", input |-> <<>>, out |-> <<>>]

\* createClaim(claimData, token): the payload is posted; the backend stores it
\* or the call throws.
CallCreateClaim(claimData, ok) ==
  /\ Len(remote) < MaxStore
  /\ remote' = IF ok THEN storeHeld(remote, createPayload(claimData))
               ELSE remote
  /\ last' = [Event("createClaim", BackendToken, "POST", 0)
                EXCEPT !.threw = ~ok,
                       !.input = <<claimData>>,
                       !.out = <<createPayload(claimData)>>]
  /\ UNCHANGED <<authVars, page, nav, editId, hasWindow, settings, slot, now,
                 portfolioVars, pend>>

\* createClaimLocal(claimData)
CallCreateClaimLocal(claimData) ==
  LET made == createClaimLocal(hasWindow, slot, claimData, now)
  IN  /\ ~made.threw
      /\ Len(made.slot.value.items) <= MaxStore
      /\ slot' = made.slot
      /\ last' = [Event("createClaimLocal", token, "none", now)
                    EXCEPT !.input = <<claimData>>, !.out = <<made.claim>>]
      /\ elapse
      /\ UNCHANGED <<authVars, page, nav, editId, hasWindow, settings, remote,
                     portfolioVars, pend>>

NextAdapter ==
  \/ \E claimData \in AdapterClaims, ok \in BOOLEAN :
       CallCreateClaim(claimData, ok)
  \/ \E claimData \in AdapterClaims : CallCreateClaimLocal(claimData)

SpecAdapter == InitAdapter /\ [][NextAdapter]_vars

\* Create, update and import of exported files, for a visitor who never signs
\* in.
NextScore ==
  \/ GoCreate
  \/ \E id \in ShownIds : GoEdit(id)
  \/ GoPortfolio
  \/ \E file \in ScoreFiles : ImportConfirm(file)
  \/ \E formData \in Forms : CreateSubmit(formData) \/ UpdateSubmit(formData)

SpecScore == Init /\ [][NextScore]_vars

\* The portfolio page after a load, holding any list of claims.
InitAnalytics ==
  /\ token = NullToken
  /\ user = NoUser
  /\ session = FALSE
  /\ page = "portfolio"
  /\ nav = "none"
  /\ editId = 0
  /\ hasWindow = TRUE
  /\ settings = Absent
  /\ slot = Absent
  /\ now = ClockStart
  /\ remote = RemoteInit
  /\ \E items \in SeqsUpTo(AnalyticsClaims, MaxStore) : claims = Arr(items)
  /\ mode = "backend"
  /\ loading = FALSE
  /\ error = ""
  /\ loads = <<>>
  /\ pend = <<>>
  /\ last = [op |-> "init", token |-> NullToken, mode |-> "backend",
             req |-> "none", id |-> 0, before |-> Absent, threw |-> FALSE,
             reload |-> "none", input |-> <<>>, out |-> <<>>]

NextAnalytics == RenderAnalytics

SpecAnalytics == InitAnalytics /\ [][NextAnalytics]_vars

\* A returning visitor on a freshly mounted portfolio page: the local store
\* holds one claim, created on an earlier visit, one tick before this one
\* starts.
ReturningStore ==
  createClaimLocal(TRUE, Absent,
                   claimDataOf(NoUser, CHOOSE formData \in SyncForms : TRUE),
                   ClockStart - 1).slot

InitReturning ==
  /\ token = NullToken
  /\ user = NoUser
  /\ session = FALSE
  /\ page = "portfolio"
  /\ nav = "none"
  /\ editId = 0
  /\ hasWindow = TRUE
  /\ settings = Absent
  /\ slot = ReturningStore
  /\ now = ClockStart
  /\ remote = RemoteInit
  /\ claims = getLocalClaims(TRUE, ReturningStore)
  /\ mode = "local"
  /\ loading = FALSE
  /\ error = ""
  /\ loads = <<>>
  /\ pend = <<>>
  /\ last = [op |-> "init", token |-> NullToken, mode |-> "local",
             req |-> "none", id |-> 0, before |-> ReturningStore,
             threw |-> FALSE, reload |-> "none", input |-> <<>>, out |-> <<>>]

\* Create, import and delete on the store of a returning visitor.
NextReturning ==
  \/ GoCreate
  \/ GoPortfolio
  \/ \E id \in ShownIds : DeleteClaim(id)
  \/ \E file \in Files : ImportConfirm(file)
  \/ \E formData \in SyncForms : CreateSubmit(formData)

SpecReturning == InitReturning /\ [][NextReturning]_vars

\* Import with every answer and every outcome of the write, over stores that
\* create has shaped, for a visitor who never signs in.
NextAtomic ==
  \/ GoCreate
  \/ GoPortfolio
  \/ \E file \in Files : \/ ImportRejected(file)
                         \/ ImportCancel(file)
                         \/ ImportConfirm(file)
                         \/ ImportQuotaExceeded(file)
  \/ \E formData \in SyncForms : CreateSubmit(formData)

SpecAtomic == Init /\ [][NextAtomic]_vars

\* The portfolio page after a load, holding claims of up to six categories.
InitBreakdown ==
  /\ token = NullToken
  /\ user = NoUser
  /\ session = FALSE
  /\ page = "portfolio"
  /\ nav = "none"
  /\ editId = 0
  /\ hasWindow = TRUE
  /\ settings = Absent
  /\ slot = Absent
  /\ now = ClockStart
  /\ remote = RemoteInit
  /\ \E items \in SeqsUpTo(BreakdownClaims, MaxShown) : claims = Arr(items)
  /\ mode = "backend"
  /\ loading = FALSE
  /\ error = ""
  /\ loads = <<>>
  /\ pend = <<>>
  /\ last = [op |-> "init", token |-> NullToken, mode |-> "backend",
             req |-> "none", id |-> 0, before |-> Absent, threw |-> FALSE,
             reload |-> "none", input |-> <<>>, out |-> <<>>]

NextBreakdown == RenderAnalytics

SpecBreakdown == InitBreakdown /\ [][NextBreakdown]_vars

\* Export and import of the exported file, over stores that create and import
\* have shaped, for a visitor who never signs in.
NextRoundTrip ==
  \/ GoCreate
  \/ GoPortfolio
  \/ \E file \in Files : ImportConfirm(file)
  \/ \E formData \in SyncForms : CreateSubmit(formData)
  \/ Export
  \/ ImportExported

SpecRoundTrip == Init /\ [][NextRoundTrip]_vars

\* Signing in and out around the settings page: the profile is saved, claims
\* are created and imported locally, and the account is deleted or left.
NextSettings ==
  \/ GoCreate
  \/ GoLogin
  \/ GoPortfolio
  \/ GoSettings
  \/ NavDone
  \/ \E u \in SessionUsers : SessionFound(u)
  \/ Logout
  \/ \E file \in SyncFiles : ImportConfirm(file)
  \/ \E formData \in SyncForms : CreateSubmit(formData)
  \/ \E profile \in Profiles : SaveProfile(profile)
  \/ \E confirmed \in BOOLEAN : DeleteAccount(confirmed)

SpecSettings == Init /\ [][NextSettings]_vars

\* Sessions, tokens and the backend, with one form and one file, every dialog
\* answered OK.
Next ==
  \/ GoCreate
  \/ \E id \in ShownIds : GoEdit(id)
  \/ GoLogin
  \/ GoPortfolio
  \/ NavDone
  \/ \E u \in LoginUsers : Login(u)
  \/ \E u \in SessionUsers : SessionFound(u)
  \/ Logout
  \/ \E i \in 1..MaxLoads, outcome \in BodyShapes \cup Failures :
        LoadSettle(i, outcome)
  \/ \E id \in ShownIds : DeleteClaim(id)
  \/ \E i \in 1..MaxPending, ok \in BOOLEAN : DeleteSettle(i, ok)
  \/ \E file \in SyncFiles : ImportConfirm(file)
  \/ \E formData \in SyncForms : UpdateSubmit(formData) \/ CreateSubmit(formData)
  \/ \E ok \in BOOLEAN : UpdateSettle(ok)
  \/ CreateOk
  \/ \E saveLocal \in BOOLEAN : CreateFail(saveLocal)

Spec == Init /\ [][Next]_vars

\* Everything that starts a load (a mount, a changed token, the reload after a
\* delete or an import) with the responses; the request that has waited longest
\* is answered or fails in the end.
NextLoads ==
  \/ GoLogin
  \/ GoPortfolio
  \/ NavDone
  \/ \E u \in LoginUsers : Login(u)
  \/ \E u \in SessionUsers : SessionFound(u)
  \/ Logout
  \/ \E i \in 1..MaxLoads, outcome \in BodyShapes \cup Failures :
        LoadSettle(i, outcome)
  \/ \E id \in ShownIds : DeleteClaim(id)
  \/ \E i \in 1..MaxPending, ok \in BOOLEAN : DeleteSettle(i, ok)
  \/ \E file \in SyncFiles : ImportConfirm(file)

SpecLoads ==
  /\ Init
  /\ [][NextLoads]_vars
  /\ WF_vars(\E outcome \in BodyShapes \cup Failures : LoadSettle(1, outcome))

\* A visitor on the home page, in a browser or not, over a slot that holds
\* anything.
InitSlot ==
  /\ token = NullToken
  /\ user = NoUser
  /\ session = FALSE
  /\ page = "home"
  /\ nav = "none"
  /\ editId = 0
  /\ hasWindow \in BOOLEAN
  /\ settings = Absent
  /\ slot \in SlotContents
  /\ now = ClockStart
  /\ remote = RemoteInit
  /\ claims = Arr(<<>>)
  /\ mode = "local"
  /\ loading = FALSE
  /\ error = ""
  /\ loads = <<>>
  /\ pend = <<>>
  /\ last = [op |-> "init", token |-> NullToken, mode |-> "local",
             req |-> "none", id |-> 0, before |-> slot, threw |-> FALSE,
             reload |-> "none", input |-> <<>>, out |-> <<>>]

\* The callers of getLocalClaims over such a slot.
NextSlot ==
  \/ GoCreate
  \/ \E id \in ShownIds : GoEdit(id)
  \/ GoPortfolio
  \/ \E id \in ShownIds : DeleteClaim(id)
  \/ \E file \in SyncFiles : ImportConfirm(file)
  \/ \E formData \in SyncForms : UpdateSubmit(formData) \/ CreateSubmit(formData)

SpecSlot == InitSlot /\ [][NextSlot]_vars

----------------------------------------------------------------------------
(* Properties *)

\* What the local store holds, as a list: the records of the slot, and nothing
\* when the slot is absent, empty or not JSON.
StoredItems(stored) ==
  IF stored.kind = "json" /\ IsArray(stored.value) THEN stored.value.items
  ELSE <<>>

\* C1: when a load that went to the backend has its request fail (a network
\* error, an error status, a body that cannot be read), loadClaims ends without
\* raising, the list shown is exactly what the local store holds at that
\* moment, the mode is "local", and the page is no longer loading.
C1_FailedRemoteLoadShowsLocalStore ==
  last.op = "loadFail" =>
    /\ ~last.threw
    /\ claims = Arr(StoredItems(slot))
    /\ mode = "local"
    /\ ~loading
    /\ error = LocalNotice

\* A failed remote load that fell back to a local store holding a record.
C1_Witness ==
  /\ last.op = "loadFail"
  /\ hasBackendToken(last.token)
  /\ StoredItems(slot) # <<>>
  /\ claims = Arr(StoredItems(slot))

\* C2: a handler whose closure holds the sentinel token sends no request, for
\* load, create, update or delete, whatever the user record holds; so no
\* request in flight carries the sentinel either.
C2_SentinelSendsNoRequest ==
  /\ last.token = Sentinel => last.req = "none" /\ last.reload = "none"
  /\ \A i \in 1..Len(loads) : loads[i].token # Sentinel
  /\ \A i \in 1..Len(pend) : pend[i].token # Sentinel

\* A create under the sentinel token, by a user who has an issuer id, went to
\* the local store.
C2_Witness ==
  /\ last.op = "createLocal"
  /\ last.token = Sentinel
  /\ user.issuerId # 0
  /\ ~last.threw
  /\ slot # last.before

\* C3: an update goes where the last completed load said the data came from:
\* after a load that reported "backend" it is sent to the backend as a PUT for
\* that claim and the local store is left alone; after a load that reported
\* "local" it is applied to the local store and no request is sent.
C3_UpdateFollowsLoadedMode ==
  last.op \in {"updateStart", "updateLocal"} =>
    /\ last.mode = "backend" => last.req = "PUT" /\ slot = last.before
    /\ last.mode = "local" =>
         /\ last.req = "none"
         /\ ~last.threw =>
              slot = JSONstringify(Arr(updateLocal(StoredItems(last.before),
                                                   last.id, last.input[1])))

\* C4: a delete goes where the last completed load said the data came from:
\* after a load that reported "backend" it is sent to the backend as a DELETE
\* for that claim and the local store is left alone; after a load that
\* reported "local" the record is removed from the local store and no DELETE
\* is sent.
C4_DeleteFollowsLoadedMode ==
  last.op \in {"deleteStart", "deleteLocal"} =>
    /\ last.mode = "backend" => last.req = "DELETE" /\ slot = last.before
    /\ last.mode = "local" =>
         /\ last.req = "none"
         /\ ~last.threw =>
              slot = JSONstringify(Arr(FilterOut(StoredItems(last.before),
                                                 last.id)))

\* C5: the records of the local store carry pairwise distinct ids after any
\* sequence of create, import, update and delete: ids taken from the clock by
\* create and ids numbered from the largest id by import never coincide.
C5_LocalIdsUnique ==
  LET items == StoredItems(slot)
  IN  \A i, j \in 1..Len(items) :
        i < j => /\ Has(items[i], "id") /\ Has(items[j], "id")
                 /\ items[i].id # items[j].id

\* Two records with the same content, ids aside.
C6_SameContent(a, b) == Spread(a, [id |-> 0]) = Spread(b, [id |-> 0])

\* C6, one import: importing N records into a store of M records leaves M + N
\* records; the M records are unchanged and in place, and the N new ones carry
\* ids distinct from each other and greater than every id stored before.
C6_ImportAppends ==
  (last.op = "import" /\ ~last.threw) =>
    LET old == StoredItems(last.before)
        new == StoredItems(slot)
        M == Len(old)
        N == Len(last.input)
    IN  /\ Len(new) = M + N
        /\ SubSeq(new, 1, M) = old
        /\ \A i \in 1..N :
              /\ Has(new[M + i], "id")
              /\ C6_SameContent(new[M + i], Spread(last.input[i], << >>))
              /\ \A j \in 1..M : new[M + i].id > old[j].id
              /\ \A k \in 1..N : k # i => new[M + k].id # new[M + i].id

\* C6, the same import twice in a row: the second run adds N records again, so
\* the store has grown by 2N (nothing is recognised by its content).
C6_ImportTwice ==
  (/\ last.op = "import" /\ ~last.threw
   /\ last'.op = "import" /\ ~last'.threw
   /\ last'.input = last.input
   /\ last'.before = slot)
  => Len(StoredItems(slot')) = Len(StoredItems(last.before))
                                + 2 * Len(last.input)

\* C6: import appends N freshly numbered records, every time it runs.
C6_ImportAddsFreshRecords == []C6_ImportAppends /\ [][C6_ImportTwice]_vars

\* The second of two imports of the same two records: the store already held
\* records of the same content, and holds them twice now.
C6_Witness ==
  /\ last.op = "import" /\ ~last.threw
  /\ Len(last.input) = MaxBatch
  /\ LET old == StoredItems(last.before)
         new == StoredItems(slot)
         M == Len(old)
         N == Len(last.input)
     IN  /\ M >= N
         /\ Len(new) = M + N
         /\ \A i \in 1..N : C6_SameContent(old[M - N + i], new[M + i])

\* The least a claim record is: an object.
C7_ClaimLike(e) == IsObject(e)

\* C7: an import whose payload is not a list of claim records (not a list, or
\* a list holding something that is not a claim record) writes nothing: the
\* rejected file leaves the store as it was, and no import that goes on to
\* merge was given such a payload.
C7_MalformedImportRejected ==
  /\ last.op = "importRejected" => slot = last.before
  /\ last.op = "import" => \A i \in 1..Len(last.input) : C7_ClaimLike(last.input[i])

\* C8: after a local create, listing the local store gives the previous list
\* followed by exactly one new record; that record has an id no other stored
\* record has, a creation time, and every other field as it was given.
C8_LocalCreateAddsOneRecord ==
  (last.op = "createLocal" /\ ~last.threw) =>
    LET old == StoredItems(last.before)
        listed == getLocalClaims(hasWindow, slot)
        given == last.input[1]
    IN  /\ IsArray(listed)
        /\ Len(listed.items) = Len(old) + 1
        /\ SubSeq(listed.items, 1, Len(old)) = old
        /\ LET made == listed.items[Len(old) + 1]
           IN  /\ DOMAIN made = DOMAIN given \cup {"id", "createdAt"}
               /\ \A f \in DOMAIN given \ {"id", "createdAt"} : made[f] = given[f]
               /\ made.createdAt = toISOString(made.id)
               /\ \A j \in 1..Len(old) : old[j].id # made.id

\* The scores the specification lists for 1 to 5 stars: -0.6, -0.2, 0.2, 0.6, 1.
C10_ScoreTable == <<Rat(-6, 10), Rat(-2, 10), Rat(2, 10), Rat(6, 10), Rat(10, 10)>>

\* C10: starsToScore(s) is (s - 2.5) / 2.5 for s in 1..5, that is -0.6, -0.2,
\* 0.2, 0.6, 1.0: strictly increasing, 0.4 apart, within [-1, 1]; and the
\* score every local create and update stores is that value for its stars.
C10_StarsToScoreTable ==
  /\ \A s \in Stars :
        /\ RatEq(starsToScore(s), Rat(10 * s - 25, 25))
        /\ RatEq(starsToScore(s), C10_ScoreTable[s])
        /\ ~RatLess(starsToScore(s), Rat(-1, 1))
        /\ ~RatLess(Rat(1, 1), starsToScore(s))
  /\ \A s \in Stars \ {5} :
        /\ RatLess(starsToScore(s), starsToScore(s + 1))
        /\ RatEq(RatSub(starsToScore(s + 1), starsToScore(s)), Rat(4, 10))
  /\ (last.op \in {"createLocal", "updateLocal"} /\ last.out # <<>>) =>
        RatEq(last.out[1].score, C10_ScoreTable[last.out[1].stars])

\* A local create with one star stored the lowest score, -0.6.
C10_Witness ==
  /\ last.op = "createLocal" /\ last.out # <<>>
  /\ last.out[1].stars = 1
  /\ RatEq(last.out[1].score, Rat(-6, 10))
  /\ last.out[1] \in { StoredItems(slot)[i] : i \in 1..Len(StoredItems(slot)) }

\* The steps that read the local store through getLocalClaims.
C9_LocalCallers ==
  {"goPortfolio", "deleteLocal", "import", "updateLocal", "createLocal"}

\* C9: whatever the slot holds (nothing, the empty string, text that is not
\* JSON, any JSON), and with no storage at all, getLocalClaims does not throw
\* and returns a list, so that no step that reads the local store fails on
\* what it was handed.
C9_LocalReadIsAlwaysAList ==
  /\ ~hasWindow => getLocalClaims(hasWindow, slot) = Arr(<<>>)
  /\ last.op \in C9_LocalCallers =>
       /\ IsArray(getLocalClaims(hasWindow, last.before))
       /\ ~last.threw

\* C11: one midpoint, 2.5, is used everywhere: for the rating a create or
\* update path has just stored, the score it stored is the value of every
\* definition of starsToScore in the code base, the one of the current library
\* file and the one of the older file alike.
C11_OneMidpointEverywhere ==
  (last.op \in {"createLocal", "legacyCreate", "updateLocal"} /\ last.out # <<>>)
  => /\ RatEq(last.out[1].score, starsToScore(last.out[1].stars))
     /\ RatEq(last.out[1].score, starsToScoreMid3(last.out[1].stars))

\* The string begins with one of the two schemes, said without startsWith.
C12_HasScheme(s) ==
  \E k \in 1..Len(s) : [i \in 1..k |-> s[i]] \in {Http, Https}

\* C12: normalizeUri returns the empty string unchanged, returns a string that
\* begins with http:// or https:// unchanged, and otherwise returns https://
\* followed by the string; applied to its own result it returns that result.
C12_NormalizeUriRule ==
  last.op = "normalizeUri" =>
    LET s == last.input[1]
        r == last.out[1]
    IN  /\ ~last.threw
        /\ s = <<>> => r = <<>>
        /\ C12_HasScheme(s) => r = s
        /\ (s # <<>> /\ ~C12_HasScheme(s)) =>
             r = <<"h", "t", "t", "p", "s", ":", "/", "/">> \o s
        /\ normalizeUri(r) = r
        /\ normalizeUri(normalizeUri(s)) = normalizeUri(s)

\* normalizeUri was given http:/example.com, one slash short of a scheme, and
\* prefixed it.
C12_Witness ==
  /\ last.op = "normalizeUri"
  /\ last.input[1] = <<"h", "t", "t", "p", ":", "/", "example.com">>
  /\ last.out[1] = Https \o last.input[1]


C14_StoredScoreFollowsStars ==
  \A i \in 1..Len(StoredItems(slot)) :
    LET c == StoredItems(slot)[i]
    IN  (IsObject(c) /\ Has(c, "stars") /\ c.stars \in 1..5)
        => Has(c, "score") /\ RatEq(c.score, starsToScore(c.stars))


\* The stars of a list of claims, a missing or zero rating counting as 0.
C15_StarsOf(items) ==
  [i \in 1..Len(items) |->
     IF "stars" \in DOMAIN items[i] THEN items[i].stars ELSE 0]

RECURSIVE C15_Sum(_)
C15_Sum(s) == IF s = <<>> THEN 0 ELSE Head(s) + C15_Sum(Tail(s))

\* The tenths 0.0 .. 5.0 as the page writes them.
C15_Tenths ==
  [n \in 0..50 |-> <<ToString(n \div 10), ".", ToString(n % 10)>>]

\* C15: the average rating shown is the sum of the claims' stars (a claim
\* without stars counting 0) divided by the number of claims, rounded to the
\* nearest tenth and written with one decimal; it is "0.0" for no claims and
\* "4.3" for ratings 5, 5, 3.
C15_AverageRatingRounded ==
  last.op = "analytics" =>
    LET items == claims.items
        shown == last.out[1].averageRating
        total == C15_Sum(C15_StarsOf(items))
    IN  /\ items = <<>> => shown = <<"0", ".", "0">>
        /\ items # <<>> =>
             \E n \in 0..50 :
               /\ shown = C15_Tenths[n]
               /\ 2 * (n * Len(items) - 10 * total) <= Len(items)
               /\ 2 * (10 * total - n * Len(items)) <= Len(items)
        /\ C15_StarsOf(items) = <<5, 5, 3>> => shown = <<"4", ".", "3">>

\* Ratings 5, 5, 3 were rendered as 4.3.
C15_Witness ==
  /\ last.op = "analytics"
  /\ C15_StarsOf(claims.items) = <<5, 5, 3>>
  /\ last.out[1].averageRating = <<"4", ".", "3">>


\* C16: create, update and delete go to the backend exactly when a load in the
\* same session state would: when the caller is authenticated, the token is
\* neither missing nor the session placeholder, and the user has an issuerId or
\* an id.
C16_OneEligibilityRule ==
  last.op \in {"createStart", "createLocal", "updateStart", "updateLocal",
               "deleteStart", "deleteLocal"}
  => (last.req # "none"
        <=> (/\ isAuthenticated(user, session)
             /\ token \notin {NullToken, Sentinel}
             /\ (user.issuerId # 0 \/ user.id # 0)))


\* A load that starts in this step: the handler called loadClaims and recorded
\* what it sent.
C17_LoadStarts ==
  last'.op \in {"goPortfolio", "import"} /\ ~last'.threw

C17_LoadSettles == last'.op \in {"loadOk", "loadFail"}

C17_OneAttemptEach ==
  /\ (C17_LoadStarts /\ last'.reload = "GET") =>
       \* one request is sent, and nothing is read from the local store
       /\ Len(loads') >= 1
       /\ Len(loads') <= Len(loads) + 1
       /\ loading'
       /\ page = "portfolio" => claims' = claims
  /\ (C17_LoadStarts /\ last'.reload = "none") =>
       \* no request is sent; the local store is read
       /\ Len(loads') <= Len(loads)
       /\ claims' = Arr(StoredItems(slot')) \/ ~IsArray(claims')
  /\ (C17_LoadSettles /\ last'.op = "loadOk") =>
       \* the request is gone, none is sent, the list is the response's
       /\ Len(loads') = Len(loads) - 1
       /\ mode' = "backend"
       /\ claims' \in {Arr(remote), Arr(<<>>)}
  /\ (C17_LoadSettles /\ last'.op = "loadFail") =>
       \* the request is gone, none is sent, the local store is read
       /\ Len(loads') = Len(loads) - 1
       /\ claims' = Arr(StoredItems(slot)) \/ ~IsArray(claims')

\* C17: one load sends at most one request and reads the local store at most
\* once: an eligible load sends one request and reads nothing until the
\* response; a load that is not eligible reads the local store and sends
\* nothing; a response ends the load without another request, and the local
\* store is read then only when the request failed.
C17_OneRemoteThenOneLocal == [][C17_OneAttemptEach]_vars

\* A load sent its one request, the request failed, and the load ended on the
\* local store with no request left in flight.
C17_Witness ==
  /\ last.op = "loadFail"
  /\ loads = <<>>
  /\ ~loading
  /\ mode = "local"


\* C18: what the page shows after a load tells how the load went: after a
\* successful remote load the mode is "backend" and no notice is set; after a
\* load that fell back the mode is "local" and the notice is set; after a load
\* that was not eligible the mode is "local" and no notice is set.
C18_LoadOutcomeDistinguishable ==
  /\ last.op = "loadOk" => mode = "backend" /\ error = ""
  /\ last.op = "loadFail" => mode = "local" /\ error = LocalNotice
  /\ (last.op \in {"goPortfolio", "import"} /\ ~last.threw /\ last.reload = "none")
       => mode = "local" /\ error = ""


\* C19: a successful answer to the list request of loadClaims is shown in full
\* whether its body is a bare array of claims or an object with a claims
\* field; any other body is shown as the empty list, and the load does not
\* fail over it.
C19_ListBodyNormalised ==
  last.op \in {"loadOk", "loadFail"} =>
    /\ last.input[1] \in {"wrapped", "array"} =>
         last.op = "loadOk" /\ claims = Arr(remote)
    /\ last.input[1] \in {"object", "null"} =>
         last.op = "loadOk" /\ claims = Arr(<<>>)

C20_FailureLeavesStores ==
  /\ last'.op \in {"deleteFail", "updateFail", "createFail"} =>
       \* reported, and nothing else: no request is sent, no store changes
       /\ Len(pend') = Len(pend) - 1
       /\ slot' = slot
       /\ remote' = remote
  /\ last'.op = "createFallback" =>
       \* the user accepted the offer to save locally
       /\ Len(pend') = Len(pend) - 1
       /\ remote' = remote
       /\ IF last'.threw THEN slot' = slot
          ELSE /\ Len(StoredItems(slot')) = Len(StoredItems(slot)) + 1
               /\ SubSeq(StoredItems(slot'), 1, Len(StoredItems(slot)))
                    = StoredItems(slot)

\* C20: a remote create, update or delete that fails is reported and nothing
\* more: it is not sent again and the local store stays as it is, except that
\* after a failed create the user may accept saving locally, which adds
\* exactly one record to the local store.
C20_FailedRemoteWriteIsNotRedirected == [][C20_FailureLeavesStores]_vars

\* A create failed on the backend, the user accepted saving locally, and the
\* local store grew by one record.
C20_Witness ==
  /\ last.op = "createFallback"
  /\ ~last.threw
  /\ Len(StoredItems(slot)) = Len(StoredItems(last.before)) + 1

C21_Patched == {"statement", "effectiveDate", "stars", "score", "aspect"}

\* C21: a local update of id i leaves the number and order of the stored
\* records as they were; a record whose id is not i is unchanged; a record
\* with id i keeps every field other than statement, effectiveDate, stars,
\* score and aspect (id, subject, claim, howKnown, createdAt among them); and
\* when no record has id i the stored list is unchanged.
C21_LocalUpdateTouchesFiveFields ==
  (last.op = "updateLocal" /\ ~last.threw) =>
    LET b == StoredItems(last.before)
        a == StoredItems(slot)
    IN  /\ Len(a) = Len(b)
        /\ \A k \in 1..Len(b) :
             IF IsObject(b[k]) /\ Has(b[k], "id") /\ b[k].id = last.id
             THEN /\ DOMAIN a[k] = DOMAIN b[k] \cup C21_Patched
                  /\ \A f \in DOMAIN b[k] \ C21_Patched : a[k][f] = b[k][f]
             ELSE a[k] = b[k]
        /\ last.id \notin Ids(b) => a = b

\* A local update changed one record of a store that holds another record
\* too.
C21_Witness ==
  /\ last.op = "updateLocal"
  /\ ~last.threw
  /\ Len(StoredItems(slot)) >= 2
  /\ StoredItems(slot) # StoredItems(last.before)
  /\ \E k \in 1..Len(StoredItems(slot)) :
       /\ StoredItems(slot)[k] = StoredItems(last.before)[k]
       /\ Has(StoredItems(slot)[k], "createdAt")

\* A local update for an id that no stored record has left the list as it was.
C21_WitnessNotFound ==
  /\ last.op = "updateLocal"
  /\ ~last.threw
  /\ last.id \notin Ids(StoredItems(last.before))
  /\ StoredItems(last.before) # <<>>


\* C22: a local delete of id i takes exactly one record, the one with id i,
\* out of the store and leaves every other record in place, unchanged and in
\* order; when no record has id i the stored list is unchanged.
C22_LocalDeleteRemovesOneRecord ==
  (last.op = "deleteLocal" /\ ~last.threw) =>
    LET b == StoredItems(last.before)
        a == StoredItems(slot)
    IN  IF last.id \in Ids(b)
        THEN \E k \in 1..Len(b) :
               /\ Has(b[k], "id") /\ b[k].id = last.id
               /\ a = RemoveAt(b, k)
        ELSE a = b


\* C23: an import writes all or nothing: after a confirmed import that did not
\* fail the store holds every record it held, in place, followed by one record
\* for each element of the file, the element's fields under a new id; after an
\* import that failed, was cancelled or was rejected the store is as before.
C23_ImportAllOrNothing ==
  /\ last.op \in {"importRejected", "importCancel"} => slot = last.before
  /\ last.op = "import" =>
       LET b == StoredItems(last.before)
           a == StoredItems(slot)
           n == Len(last.input)
       IN  IF last.threw THEN slot = last.before
           ELSE /\ Len(a) = Len(b) + n
                /\ SubSeq(a, 1, Len(b)) = b
                /\ \A k \in 1..n :
                     LET from == last.input[k]
                         kept == IF IsObject(from) THEN DOMAIN from \ {"id"}
                                 ELSE {}
                     IN  /\ DOMAIN a[Len(b) + k] = kept \cup {"id"}
                         /\ \A f \in kept : a[Len(b) + k][f] = from[f]

\* A file of two elements was imported into a store that held a record, and
\* the store holds all three.
C23_Witness ==
  /\ last.op = "import"
  /\ ~last.threw
  /\ Len(last.input) = 2
  /\ StoredItems(last.before) # <<>>
  /\ Len(StoredItems(slot)) = Len(StoredItems(last.before)) + 2

\* The write of a confirmed import failed and the store is as it was.
C23_WitnessWriteFailed ==
  /\ last.op = "import"
  /\ last.threw
  /\ Len(last.input) = 2
  /\ slot = last.before

\* The category a claim counts under.
C24_Category(c) == IF "aspect" \in DOMAIN c THEN c.aspect ELSE "project"

C25_ExportImportRoundTrip ==
  /\ (last.op = "export" /\ mode = "local") =>
       /\ ~JSONparse(last.out[1]).threw
       /\ JSONparse(last.out[1]).value = Arr(StoredItems(slot))
  /\ (last.op = "import" /\ ~last.threw /\ last.input = StoredItems(last.before)) =>
       LET b == StoredItems(last.before)
           a == StoredItems(slot)
           M == Len(b)
       IN  /\ Len(a) = 2 * M
           /\ \A k \in 1..M :
                /\ a[k] = b[k]
                /\ IsObject(b[k]) =>
                     /\ DOMAIN a[M + k] = DOMAIN b[k] \cup {"id"}
                     /\ \A f \in DOMAIN b[k] \ {"id"} : a[M + k][f] = b[k][f]

\* The export of a store of two records, one of them created on the create
\* page, was imported: the store holds four records and the copy of the
\* created one has its createdAt.
C25_Witness ==
  /\ last.op = "import"
  /\ ~last.threw
  /\ last.input = StoredItems(last.before)
  /\ Len(StoredItems(slot)) = 4
  /\ \E k \in 1..2 :
       /\ Has(StoredItems(slot)[k], "createdAt")
       /\ StoredItems(slot)[k].id >= ClockStart
       /\ StoredItems(slot)[2 + k].createdAt = StoredItems(slot)[k].createdAt

\* The records of a file are among the claims shown, each under some id.
C26_Shown(imported, shown) ==
  \A k \in 1..Len(imported) :
    \E j \in 1..Len(shown) :
      /\ IsObject(shown[j])
      /\ \A f \in (IF IsObject(imported[k]) THEN DOMAIN imported[k] ELSE {}) \ {"id"} :
           Has(shown[j], f) /\ shown[j][f] = imported[k][f]

\* The reload is a local read, done within the import.
C26_LocalReload ==
  (last'.op = "import" /\ ~last'.threw /\ last'.reload = "none") =>
    /\ IsArray(claims')
    /\ Len(claims'.items) = Len(claims.items) + Len(last'.input)
    /\ C26_Shown(last'.input, claims'.items)

\* For a visitor who never signs in the import is shown after its reload.
C26_LocalImportIsShown == [][C26_LocalReload]_vars

\* The reload is a request, the only one in flight, and this step ends it.
C26_RemoteReload ==
  (/\ last.op = "import" /\ ~last.threw /\ last.reload = "GET"
   /\ Len(loads) = 1
   /\ last'.op \in {"loadOk", "loadFail"}) =>
    /\ IsArray(claims')
    /\ Len(claims'.items) = Len(claims.items) + Len(last.input)
    /\ C26_Shown(last.input, claims'.items)

\* C26: after a confirmed import of N records and the reload that follows it,
\* the page shows the N records and N more claims than the confirmation
\* announced, also when the claims are loaded from the backend.
C26_ImportIsShownAfterReload == [][C26_RemoteReload]_vars

\* C27: when loads overlap, what the page shows once all have finished is what
\* the load that started last produced. After a logout that load is the local
\* read for the signed-out visitor: once no load is in flight the mode is
\* "local", whatever an earlier request answers later.
C27_LatestLoadWins ==
  (/\ page = "portfolio" /\ token = NullToken /\ ~session /\ ~user.present
   /\ loads = <<>> /\ ~loading)
  => mode = "local"


\* A load has just ended: with a response, with a failure, or at once because
\* the session is not eligible.
C28_Ended ==
  \/ last.op \in {"loadOk", "loadFail"}
  \/ last.op \in {"goPortfolio", "import"} /\ ~last.threw /\ last.reload = "none"

C28_Cleared == C28_Ended => ~loading /\ mode \in {"backend", "local"}

\* C28: every load that starts finishes, given that its request is answered or
\* fails in the end: whenever the page is loading it stops loading, whenever
\* requests are in flight none is in flight later, and at the end of a load,
\* successful, failed or not eligible, loading is false and the mode is
\* "backend" or "local".
C28_EveryLoadFinishes ==
  /\ []C28_Cleared
  /\ loading ~> (~loading /\ mode \in {"backend", "local"})
  /\ (loads # <<>>) ~> (loads = <<>>)

\* A load that waited for its request ended with the response, and the page
\* is no longer loading.
C28_Witness ==
  /\ last.op = "loadOk"
  /\ last.input = <<"wrapped">>
  /\ loads = <<>>
  /\ ~loading
  /\ mode = "backend"

\* The records with an id other than the given one, in their order.
C29_Others(items, id) ==
  SelectSeq(items, LAMBDA claim : ~(Has(claim, "id") /\ claim.id = id))

\* C29: every local write works on the store as the write just before it left
\* it, whatever handlers ran in between, so no write undoes another: a create
\* (from the form or as the fallback of a failed remote create) leaves the
\* stored list followed by its one record, M records becoming M + 1 and so
\* M + k after k creates; an import leaves the stored list followed by as many
\* records as the file holds; an update leaves as many records as before, those
\* with another id untouched; a delete leaves the records with another id.
C29_NoLostWrite ==
  LET old == getLocalClaims(hasWindow, last.before)
      listed == getLocalClaims(hasWindow, slot)
      done == ~last.threw /\ IsArray(old)
  IN  /\ (last.op \in {"createLocal", "createFallback"} /\ done) =>
           /\ IsArray(listed)
           /\ listed.items = Append(old.items, last.out[1])
      /\ (last.op = "import" /\ done) =>
           /\ IsArray(listed)
           /\ Len(listed.items) = Len(old.items) + Len(last.input)
           /\ SubSeq(listed.items, 1, Len(old.items)) = old.items
      /\ (last.op = "updateLocal" /\ done) =>
           /\ IsArray(listed)
           /\ Len(listed.items) = Len(old.items)
           /\ \A i \in 1..Len(old.items) :
                ~(Has(old.items[i], "id") /\ old.items[i].id = last.id)
                  => listed.items[i] = old.items[i]
      /\ (last.op = "deleteLocal" /\ done) =>
           /\ IsArray(listed)
           /\ listed.items = C29_Others(old.items, last.id)

\* A second create on a store that a create and then an import have filled:
\* two records become three.
C29_Witness ==
  /\ last.op = "createLocal" /\ ~last.threw
  /\ Len(StoredItems(last.before)) = 2
  /\ Len(StoredItems(slot)) = 3
  /\ \E i \in 1..2 : Has(StoredItems(last.before)[i], "createdAt")
  /\ \E i \in 1..2 : ~Has(StoredItems(last.before)[i], "createdAt")

\* A create that falls back to the local store after the remote create failed,
\* on a store that is not empty.
C29_WitnessFallback ==
  /\ last.op = "createFallback" /\ ~last.threw
  /\ Len(StoredItems(last.before)) >= 1
  /\ Len(StoredItems(slot)) = Len(StoredItems(last.before)) + 1


\* What a step of logout and a step of saveProfile leave behind.
C30_Step ==
  /\ last'.op = "logout" =>
       /\ token' = NullToken
       /\ user' = NoUser
       /\ slot' = Absent
       /\ getLocalClaims(hasWindow', slot') = Arr(<<>>)
       /\ settings' = settings
  /\ last'.op = "saveProfile" => slot' = slot

\* C30: logout leaves no token, no user and no claims slot, so that no local
\* claim is listed after it, and leaves the settings slot as it was; saving the
\* profile leaves the claims slot as it was.
C30_LogoutKeepsSettings == [][C30_Step]_vars

\* A logout of a signed-in user who had saved a profile and held local claims.
C30_Witness ==
  /\ last.op = "logout"
  /\ last.token # NullToken
  /\ StoredItems(last.before) # <<>>
  /\ settings.kind = "json"
  /\ slot = Absent

\* A profile saved while the claims slot holds claims.
C30_WitnessSave ==
  /\ last.op = "saveProfile"
  /\ StoredItems(slot) # <<>>
  /\ settings.kind = "json"

====
